---- MODULE Spec2Model ----
(***************************************************************************)
(* PIKUDO: room lifecycle (end route), two-phase challenge-media upload    *)
(* (reserve / commit routes) over the relational store, and the setup      *)
(* page (roster polling, startGame).                                       *)
(*                                                                         *)
(* Strings are TLA+ strings; a nullable column or an "at most one row"      *)
(* lookup is a sequence of length 0 (null / no row) or 1 (the value).       *)
(* Times are minutes since the epoch of the run.                           *)
(***************************************************************************)
EXTENDS Integers, Sequences, FiniteSets, Bags, TLC

VARIABLES
    rooms,        \* table rooms: id -> row
    players,      \* table players: id -> room_id
    sessions,     \* table player_sessions: session_token -> player_id
    members,      \* table room_members: <<room_id, player_id>> -> role
    challenges,   \* table player_challenges: id -> row
    issued,       \* storage: the paths a signed upload url was created for
    now,          \* wall clock, minutes
    pending,      \* bag of requests whose store update is in flight
    last,         \* the request answered last, with its response
    startOks,     \* number of start requests answered with success (0, 1, many)
    isOwner,      \* setup page: state isOwner
    mePending,    \* setup page: the request to /api/rooms/me has not been answered yet
    roomName,     \* setup page: state roomName
    starting,     \* setup page: state starting
    pageError,    \* setup page: state error, null or a message
    navigated,    \* setup page: window.location.href was set to the room's page
    sg,           \* setup page: the request startGame is waiting on, "idle" if none
    sent,         \* setup page: the requests the current startGame has issued, in order
    got,          \* setup page: the answers the current startGame has received, in order
    pagePlayers,  \* setup page: state players
    life,         \* setup page: number of runs of the polling effect so far
    cancelled,    \* setup page: the flag cancelled of each run of the polling effect
    timers,       \* setup page: the runs whose interval is armed
    polls,        \* setup page: the roster requests in flight
    pollCount     \* setup page: number of roster requests issued so far

pageVars == <<isOwner, mePending, roomName, starting, pageError, navigated, sg, sent, got,
              pagePlayers, life, cancelled, timers, polls, pollCount>>

vars == <<rooms, players, sessions, members, challenges, issued, now, pending, last, startOks,
          pageVars>>

roomVars == <<rooms, players, sessions, members, challenges>>

----------------------------------------------------------------------------
(* Bounds of the model *)

MaxTicks == 1

MaxInflight == 2

MaxMounts == 2

MaxPolls == 3

(* Program constants *)

TickMinutes == 20

RoundMinutes == 30

DefaultRounds == 4

MinRounds == 1

MaxRounds == 10

BUCKET == "retos"

----------------------------------------------------------------------------
(* Nullable values and single-row lookups *)

None == <<>>

Some(x) == <<x>>

\* .eq(key).maybeSingle() on a table keyed by the filtered column
MaybeSingle(table, key) == IF key \in DOMAIN table THEN Some(table[key]) ELSE None

\* String.prototype.startsWith
StartsWith(s, p) == Len(s) >= Len(p) /\ SubSeq(s, 1, Len(p)) = p

\* a table without the rows whose key is in gone
Without(table, gone) == [k \in (DOMAIN table) \ gone |-> table[k]]

----------------------------------------------------------------------------
(* The world the requests are drawn from *)

RoomIds == {"r1", "r2"}

PlayerIds == {"p1", "p2", "p4"}

\* header values: "" is a request without a token, "tokX" a token of no session
Tokens == {"", "tokX", "tok1", "tok2", "tok4"}

\* body.code: "" stands for a missing, non-string or malformed code
Codes == {"", "ABCD", "WXYZ", "QQQQ"}

\* request bodies of the room routes
Bodies == {[code |-> c, role |-> ""] : c \in Codes}

\* a body may carry fields no route reads, as a role the client claims for itself
ClaimingBody == [code |-> "ABCD", role |-> "owner"]

StoreError == "STORE_ERROR"

\* the store call of a request that fails, if any
EndFailures == {"none", "session", "player", "room", "member"}

\* end requests: every token with every body while the store answers, a claimed role
\* in the requests of those who are not r1's owner, and a failure of each store call on
\* the requests of r1's owner and of a member of r1
EndRequests ==
    {[token |-> t, body |-> b, fail |-> "none"] : t \in Tokens, b \in Bodies}
      \cup {[token |-> t, body |-> ClaimingBody, fail |-> "none"] : t \in {"tokX", "tok2", "tok4"}}
      \cup {[token |-> t, body |-> [code |-> "ABCD", role |-> ""], fail |-> f] :
               t \in {"tok1", "tok2"}, f \in EndFailures}

----------------------------------------------------------------------------
(* Validators of @/lib/validators, as the routes use them *)

\* the session token of the request, "" when it carries none
readSessionTokenFromRequest(token) == token

\* a well-formed room code
validateRoomCode(code) == code # ""

\* a well-formed uuid
validateUuid(id) == id # ""

----------------------------------------------------------------------------
(* Responses *)

\* an error response, or the verdict of a guard: status 0 lets the request go on
\* failed names the store call that failed on the way, if one did
Verdict(status, error, target, failed) ==
    [status |-> status, error |-> error, target |-> target, failed |-> failed]

Pass(target) == Verdict(0, "", target, "none")

Deny(status, error) == Verdict(status, error, "", "none")

\* error.message of a failed store call, with status 500
Internal(call) == Verdict(500, StoreError, "", call)

\* a request of a room route with its response: fail is the store call that failed
\* while it was served ("none" if none did), phase tells whether the response came from the checks or after the update
RoomReply(op, token, body, fail, phase, status, error, starts, ends) ==
    [op |-> op, token |-> token, body |-> body, fail |-> fail, phase |-> phase,
     status |-> status, error |-> error, startsAt |-> starts, endsAt |-> ends]

----------------------------------------------------------------------------
(* POST /api/rooms/end *)

\* the rooms row with the given code, if any
RoomByCode(code) ==
    LET hit == {r \in DOMAIN rooms : rooms[r].code = code}
    IN  IF hit = {} THEN None ELSE Some(CHOOSE r \in hit : TRUE)

\* member?.role ?? "" ; the error of the membership lookup is not read
MemberRole(roomId, playerId, fail) ==
    LET member == IF fail = "member" THEN None ELSE MaybeSingle(members, <<roomId, playerId>>)
    IN  IF member = None THEN "" ELSE member[1]

RoleFromRequest(body, role) == IF body.role # "" THEN body.role ELSE role

\* the role the owner check reads: the membership row's, whatever the body says
CheckedRole(body, role) == role

\* session -> player -> room -> membership role, in the order of the route
OwnerGuard(token, body, fail) ==
    LET sessionToken == readSessionTokenFromRequest(token)
        code == body.code
        session == MaybeSingle(sessions, sessionToken)
        player == MaybeSingle(players, session[1])
        room == RoomByCode(code)
    IN  IF sessionToken = "" THEN Deny(401, "UNAUTHORIZED")
        ELSE IF ~validateRoomCode(code) THEN Deny(400, "INVALID_ROOM_CODE")
        ELSE IF fail = "session" THEN Internal("session")
        ELSE IF session = None THEN Deny(401, "UNAUTHORIZED")
        ELSE IF fail = "player" THEN Internal("player")
        ELSE IF player = None THEN Deny(401, "UNAUTHORIZED")
        ELSE IF fail = "room" THEN Internal("room")
        ELSE IF room = None THEN Deny(404, "ROOM_NOT_FOUND")
        ELSE IF room[1] # player[1] THEN Deny(403, "NOT_ALLOWED")
        ELSE IF CheckedRole(body, MemberRole(room[1], session[1], fail)) # "owner"
             THEN Verdict(403, "NOT_ALLOWED", "", IF fail = "member" THEN "member" ELSE "none")
        ELSE Pass(room[1])

EndedRowKeepingStatus(row, nowIso) == [row EXCEPT !.ends_at = Some(nowIso)]

EndedRowDroppingStart(row, nowIso) ==
    [row EXCEPT !.status = "ended", !.starts_at = None, !.ends_at = Some(nowIso)]

\* .update({ status: "ended", ends_at: nowIso }) on one row
EndedRow(row, nowIso) == [row EXCEPT !.status = "ended", !.ends_at = Some(nowIso)]

\* rooms after .update(...).eq("id", roomId): the row with that id, none if it is gone
EndUpdate(roomId, nowIso) ==
    IF roomId \in DOMAIN rooms
    THEN [rooms EXCEPT ![roomId] = EndedRow(rooms[roomId], nowIso)]
    ELSE rooms

\* the route up to the store update: checks, then nowIso is taken and the update sent
EndBegin(token, body, fail) ==
    LET g == OwnerGuard(token, body, fail)
    IN  IF g.status # 0
        THEN /\ last' = RoomReply("end", token, body, g.failed, "checks", g.status, g.error, None, None)
             /\ UNCHANGED <<roomVars, issued, now, pending, startOks, pageVars>>
        ELSE /\ BagCardinality(pending) < MaxInflight
             /\ pending' = pending (+) SetToBag({[op |-> "end", token |-> token, body |-> body,
                                                   room |-> g.target, at |-> now]})
             /\ UNCHANGED <<roomVars, issued, now, last, startOks, pageVars>>

\* the store applies the update (or fails) and the route answers
EndFinish(p, ok) ==
    /\ p \in BagToSet(pending)
    /\ p.op = "end"
    /\ pending' = pending (-) SetToBag({p})
    /\ IF ok
       THEN /\ rooms' = EndUpdate(p.room, p.at)
            /\ last' = RoomReply("end", p.token, p.body, "none", "update", 200, "", None, Some(p.at))
       ELSE /\ rooms' = rooms
            /\ last' = RoomReply("end", p.token, p.body, "update", "update", 500, StoreError,
                                 None, None)
    /\ UNCHANGED <<players, sessions, members, challenges, issued, now, startOks, pageVars>>

----------------------------------------------------------------------------
(* The other lifecycle routes, as the setup page calls them: rename, rounds, start,
   close. The page sends them only as the owner, with its own token and code. *)

PageToken == "tok1"

PageBody == [code |-> "ABCD", role |-> ""]

Names == {"", "Fiesta"}

RoundInputs == {0, 1, 11}

RoundsOk(n) == n >= MinRounds /\ n <= MaxRounds

PageReply(op, phase, status, error, starts, ends) ==
    RoomReply(op, PageToken, PageBody, "none", phase, status, error, starts, ends)

\* rename: owner-only, any status
Rename(name) ==
    LET g == OwnerGuard(PageToken, PageBody, "none")
    IN  /\ IF name = ""
           THEN /\ last' = PageReply("rename", "checks", 400, "INVALID_NAME", None, None)
                /\ rooms' = rooms
           ELSE IF g.status # 0
           THEN /\ last' = PageReply("rename", "checks", g.status, g.error, None, None)
                /\ rooms' = rooms
           ELSE /\ rooms' = [rooms EXCEPT ![g.target].name = Some(name)]
                /\ last' = PageReply("rename", "update", 200, "", None, None)
        /\ UNCHANGED <<players, sessions, members, challenges, issued, now, pending, startOks, pageVars>>

\* set_rounds: owner-only, n in [1,10], only before start; the status check and the
\* write are one filtered update
SetRounds(n) ==
    LET g == OwnerGuard(PageToken, PageBody, "none")
    IN  /\ IF ~RoundsOk(n)
           THEN /\ last' = PageReply("rounds", "checks", 400, "INVALID_ROUNDS", None, None)
                /\ rooms' = rooms
           ELSE IF g.status # 0
           THEN /\ last' = PageReply("rounds", "checks", g.status, g.error, None, None)
                /\ rooms' = rooms
           ELSE IF rooms[g.target].status # "lobby"
           THEN /\ last' = PageReply("rounds", "update", 409, "CONFLICT", None, None)
                /\ rooms' = rooms
           ELSE /\ rooms' = [rooms EXCEPT ![g.target].rounds = n]
                /\ last' = PageReply("rounds", "update", 200, "", None, None)
        /\ UNCHANGED <<players, sessions, members, challenges, issued, now, pending, startOks, pageVars>>

\* start, up to its update: owner-only, a room seen out of lobby is a conflict
StartBegin ==
    LET g == OwnerGuard(PageToken, PageBody, "none")
    IN  IF g.status # 0
        THEN /\ last' = PageReply("start", "checks", g.status, g.error, None, None)
             /\ UNCHANGED <<roomVars, issued, now, pending, startOks, pageVars>>
        ELSE IF rooms[g.target].status # "lobby"
        THEN /\ last' = PageReply("start", "checks", 409, "CONFLICT", None, None)
             /\ UNCHANGED <<roomVars, issued, now, pending, startOks, pageVars>>
        ELSE /\ BagCardinality(pending) < MaxInflight
             /\ pending' = pending (+) SetToBag({[op |-> "start", room |-> g.target]})
             /\ UNCHANGED <<roomVars, issued, now, last, startOks, pageVars>>

\* the row a start writes: startsAt = now, endsAt = now + rounds * 30 min, active
StartedRow(row, at) ==
    [row EXCEPT !.status = "active", !.starts_at = Some(at),
                !.ends_at = Some(at + row.rounds * RoundMinutes)]

StartMatchesAnyRow(row) == TRUE

\* the filter of start's update: the row is still in lobby
StartMatches(row) == row.status = "lobby"

\* start's update is filtered: the one request whose update matches the row performs
\* the transition, any other is a conflict
StartFinish(p, ok) ==
    /\ p \in BagToSet(pending)
    /\ p.op = "start"
    /\ pending' = pending (-) SetToBag({p})
    /\ IF ~ok
       THEN /\ last' = RoomReply("start", PageToken, PageBody, "update", "update", 500,
                                 StoreError, None, None)
            /\ UNCHANGED <<rooms, startOks>>
       ELSE IF p.room \in DOMAIN rooms /\ StartMatches(rooms[p.room])
       THEN /\ rooms' = [rooms EXCEPT ![p.room] = StartedRow(rooms[p.room], now)]
            /\ last' = PageReply("start", "update", 200, "",
                                 rooms'[p.room].starts_at, rooms'[p.room].ends_at)
            /\ startOks' = IF startOks < 2 THEN startOks + 1 ELSE startOks
       ELSE /\ last' = PageReply("start", "update", 409, "CONFLICT", None, None)
            /\ UNCHANGED <<rooms, startOks>>
    /\ UNCHANGED <<players, sessions, members, challenges, issued, now, pageVars>>

\* close: owner-only; deletes the room and, in cascade, its memberships, players,
\* sessions and challenges
Close ==
    LET g == OwnerGuard(PageToken, PageBody, "none")
        gonePlayers == {q \in DOMAIN players : players[q] = g.target}
    IN  /\ IF g.status # 0
           THEN /\ last' = PageReply("close", "checks", g.status, g.error, None, None)
                /\ UNCHANGED roomVars
           ELSE /\ rooms' = Without(rooms, {g.target})
                /\ members' = Without(members, {m \in DOMAIN members : m[1] = g.target})
                /\ players' = Without(players, gonePlayers)
                /\ sessions' = Without(sessions, {t \in DOMAIN sessions : sessions[t] \in gonePlayers})
                /\ challenges' = Without(challenges,
                                         {c \in DOMAIN challenges : challenges[c].player_id \in gonePlayers})
                /\ last' = PageReply("close", "update", 200, "", None, None)
        /\ UNCHANGED <<issued, now, pending, startOks, pageVars>>

\* time passes
Tick ==
    /\ now < MaxTicks * TickMinutes
    /\ now' = now + TickMinutes
    /\ UNCHANGED <<roomVars, issued, pending, last, startOks, pageVars>>

----------------------------------------------------------------------------
(* Initial store: room r1 (owner p1, member p2, p4 without a membership row) and
   room r2 (none of these players), both in lobby; one challenge of p1, one of p2 *)

NewRoom(code) ==
    [code |-> code, name |-> None, status |-> "lobby", rounds |-> DefaultRounds,
     starts_at |-> None, ends_at |-> None]

NewChallenge(playerId, blockStart) ==
    [player_id |-> playerId, block_start |-> blockStart, media_url |-> None,
     media_type |-> None, media_mime |-> None, media_uploaded_at |-> None]

Init ==
    /\ rooms = [r \in RoomIds |-> NewRoom(IF r = "r1" THEN "ABCD" ELSE "WXYZ")]
    /\ players = [q \in PlayerIds |-> "r1"]
    /\ sessions = [t \in {"tok1", "tok2", "tok4"} |->
                     CASE t = "tok1" -> "p1" [] t = "tok2" -> "p2" [] OTHER -> "p4"]
    /\ members = [m \in {<<"r1", "p1">>, <<"r1", "p2">>} |->
                    IF m = <<"r1", "p1">> THEN "owner" ELSE "member"]
    /\ challenges = [c \in {"c1", "c2"} |->
                       IF c = "c1" THEN NewChallenge("p1", "2024-05-01T10:00:00+00:00")
                                   ELSE NewChallenge("p2", "2024-05-01T12:30:00+02:00")]
    /\ issued = {}
    /\ now = 0
    /\ pending = EmptyBag
    /\ last = [op |-> "none"]
    /\ startOks = 0
    /\ isOwner = FALSE
    /\ mePending = TRUE
    /\ roomName = ""
    /\ starting = FALSE
    /\ pageError = None
    /\ navigated = FALSE
    /\ sg = "idle"
    /\ sent = <<>>
    /\ got = <<>>
    /\ pagePlayers = <<>>
    /\ life = 0
    /\ cancelled = <<>>
    /\ timers = {}
    /\ polls = {}
    /\ pollCount = 0

Next ==
    \/ \E req \in EndRequests : EndBegin(req.token, req.body, req.fail)
    \/ \E p \in BagToSet(pending), ok \in BOOLEAN : EndFinish(p, ok)
    \/ \E name \in Names : Rename(name)
    \/ \E n \in RoundInputs : SetRounds(n)
    \/ StartBegin
    \/ \E p \in BagToSet(pending), ok \in BOOLEAN : StartFinish(p, ok)
    \/ Close
    \/ Tick

Spec == Init /\ [][Next]_vars

----------------------------------------------------------------------------
(* Properties of the room lifecycle *)

\* the player a token resolves to and the room a code names, in the current store
Resolves(token) == token \in DOMAIN sessions /\ sessions[token] \in DOMAIN players

\* the caller is authenticated, the room of the code exists, and the caller's
\* membership row for it does not say owner (a member, a player without a row, a
\* player of another room)
NonOwnerOfRoom(token, code) ==
    /\ Resolves(token)
    /\ RoomByCode(code) # None
    /\ MemberRole(RoomByCode(code)[1], sessions[token], "none") # "owner"

LastIsNonOwnerEnd ==
    /\ last.op = "end"
    /\ NonOwnerOfRoom(last.token, last.body.code)

\* a step in which a request of route op is answered
Answered(op) == last' # last /\ last'.op = op

\* C1: an end, reserve-upload or commit-upload request whose session token is in no
\* session row is answered 401 UNAUTHORIZED whatever its body holds (the store
\* answering every call).
C1_UnknownTokenUnauthorized ==
    (/\ last.op \in {"end", "reserve", "commit"}
     /\ last.fail = "none"
     /\ last.token \notin DOMAIN sessions)
        => (last.status = 401 /\ last.error = "UNAUTHORIZED")

\* C2: end by an authenticated player who is not the owner of the existing room named
\* by the code is answered 403 NOT_ALLOWED once the session, player and room lookups
\* have answered, whatever role the body claims, and no such request changes a room.
C2_NonOwnerEndDenied ==
    /\ []((LastIsNonOwnerEnd /\ last.fail \in {"none", "member"})
            => (last.status = 403 /\ last.error = "NOT_ALLOWED"))
    /\ [][(Answered("end") /\ LastIsNonOwnerEnd') => rooms' = rooms]_vars

\* a member of r1 who claims the owner role in the body is denied on the active room
C2_Witness ==
    /\ last.op = "end"
    /\ last.token = "tok2"
    /\ last.body = ClaimingBody
    /\ last.status = 403
    /\ "r1" \in DOMAIN rooms
    /\ rooms["r1"].status = "active"

BothSet(row) == row.starts_at # None /\ row.ends_at # None

OnSchedule(row) == row.ends_at = Some(row.starts_at[1] + row.rounds * RoundMinutes)

\* C6 as stated: whenever startsAt and endsAt are both set, endsAt = startsAt +
\* rounds * 30 min.
C6_ScheduleWheneverSet ==
    \A r \in DOMAIN rooms : BothSet(rooms[r]) => OnSchedule(rooms[r])

\* C6 as amended: in every reachable state of an active room, startsAt and endsAt are
\* set and endsAt = startsAt + rounds * 30 min.
C6_ScheduleWhileActive ==
    \A r \in DOMAIN rooms :
        rooms[r].status = "active" => (BothSet(rooms[r]) /\ OnSchedule(rooms[r]))

\* rounds were set to 1, the room was started, and time has passed since
C6_Witness ==
    /\ "r1" \in DOMAIN rooms
    /\ rooms["r1"].status = "active"
    /\ rooms["r1"].rounds = 1
    /\ now > rooms["r1"].starts_at[1]

\* C7: an end of the owner that succeeds on a room in lobby or ended leaves the room's
\* status, startsAt and endsAt as they were.
C7_EndOutsideActiveIsNoOp ==
    [][\A r \in DOMAIN rooms :
          (/\ Answered("end")
           /\ last'.status = 200
           /\ RoomByCode(last'.body.code) = Some(r)
           /\ rooms[r].status \in {"lobby", "ended"}
           /\ r \in DOMAIN rooms')
            => (/\ rooms'[r].status = rooms[r].status
                /\ rooms'[r].starts_at = rooms[r].starts_at
                /\ rooms'[r].ends_at = rooms[r].ends_at)]_vars

\* C8: once a room is ended, its status stays ended and its rounds, startsAt and endsAt
\* stay as they are for as long as the room exists.
C8_EndedIsTerminal ==
    [][\A r \in DOMAIN rooms :
          (rooms[r].status = "ended" /\ r \in DOMAIN rooms')
            => (/\ rooms'[r].status = "ended"
                /\ rooms'[r].rounds = rooms[r].rounds
                /\ rooms'[r].starts_at = rooms[r].starts_at
                /\ rooms'[r].ends_at = rooms[r].ends_at)]_vars

\* a start whose update is answered by the store
StartUpdateAnswered ==
    /\ BagCardinality(pending') < BagCardinality(pending)
    /\ last'.op = "start"
    /\ last'.phase = "update"
    /\ last'.fail = "none"

\* C9: of the start requests in flight on a lobby room, the one whose update finds the
\* room in lobby performs the transition and is answered success with the startsAt and
\* endsAt it wrote; every other is answered 409 CONFLICT and writes nothing; no room
\* sees two successful starts, and a startsAt once written is never replaced.
C9_SingleStart ==
    /\ [](startOks <= 1)
    /\ [][StartUpdateAnswered =>
            IF "r1" \in DOMAIN rooms /\ rooms["r1"].status = "lobby"
            THEN /\ last'.status = 200
                 /\ rooms'["r1"] = StartedRow(rooms["r1"], now)
                 /\ last'.startsAt = rooms'["r1"].starts_at
                 /\ last'.endsAt = rooms'["r1"].ends_at
            ELSE /\ last'.status = 409
                 /\ last'.error = "CONFLICT"
                 /\ rooms' = rooms]_vars
    /\ [][\A r \in DOMAIN rooms :
            (rooms[r].starts_at # None /\ r \in DOMAIN rooms')
              => rooms'[r].starts_at = rooms[r].starts_at]_vars

\* two starts were in flight on the lobby room: one made it active, the other has just
\* been answered CONFLICT by its update
C9_Witness ==
    /\ startOks = 1
    /\ last.op = "start"
    /\ last.phase = "update"
    /\ last.status = 409
    /\ "r1" \in DOMAIN rooms
    /\ rooms["r1"].status = "active"
    /\ rooms["r1"].starts_at = Some(now)

\* the answer of end to the same caller for a code that names no room ("QQQQ" is the
\* code of no room in any state)
EndAnswerForNoRoom(token) == OwnerGuard(token, [code |-> "QQQQ", role |-> ""], "none")

\* C12: end by an authenticated caller with no membership row for the existing room
\* named by the code is answered as end answers that caller for a code of no room.
C12_EndHidesRoomExistence ==
    (/\ last.op = "end"
     /\ last.fail = "none"
     /\ Resolves(last.token)
     /\ RoomByCode(last.body.code) # None
     /\ <<RoomByCode(last.body.code)[1], sessions[last.token]>> \notin DOMAIN members)
        => (/\ last.status = EndAnswerForNoRoom(last.token).status
            /\ last.error = EndAnswerForNoRoom(last.token).error)

\* C13: an end request one of whose store calls failed (session, player, room or
\* membership lookup, or the update) is answered 500 with the store's message.
C13_StoreFailureIsInternal ==
    (last.op = "end" /\ last.fail # "none") => (last.status = 500 /\ last.error = StoreError)

\* C17: when the store applies the update of an end of the owner to a room that is
\* active, the room becomes ended with endsAt the time the request took, the answer is
\* success with that same time as endedAt, the room's code, name, rounds and startsAt
\* stay as they were, and no other room changes.
C17_EndOfActiveRoom ==
    [][\A p \in BagToSet(pending) :
          (/\ p.op = "end"
           /\ pending' = pending (-) SetToBag({p})
           /\ last'.status = 200
           /\ p.room \in DOMAIN rooms
           /\ rooms[p.room].status = "active")
            => (/\ last'.op = "end"
                /\ last'.endsAt = Some(p.at)
                /\ rooms'[p.room] = [code |-> rooms[p.room].code, name |-> rooms[p.room].name,
                                     status |-> "ended", rounds |-> rooms[p.room].rounds,
                                     starts_at |-> rooms[p.room].starts_at,
                                     ends_at |-> Some(p.at)]
                /\ \A r \in (DOMAIN rooms) \ {p.room} : rooms'[r] = rooms[r])]_vars

\* the room, renamed, set to one round and started at 0, was ended by its owner at a
\* later time, before its schedule ran out
C17_Witness ==
    /\ last.op = "end"
    /\ last.status = 200
    /\ last.token = "tok1"
    /\ "r1" \in DOMAIN rooms
    /\ rooms["r1"].status = "ended"
    /\ rooms["r1"].name = Some("Fiesta")
    /\ rooms["r1"].rounds = 1
    /\ rooms["r1"].starts_at = Some(0)
    /\ now > 0
    /\ rooms["r1"].ends_at = Some(now)
    /\ last.endsAt = Some(now)

----------------------------------------------------------------------------
(* Challenge media upload: POST reserve (signed upload url) and POST commit *)

\* the index of the first "/" of s, Len(s) + 1 if it has none
SlashAt(s) ==
    LET at == {i \in 1..Len(s) : SubSeq(s, i, i) = "/"}
    IN  IF at = {} THEN Len(s) + 1 ELSE CHOOSE i \in at : \A j \in at : i <= j

\* s.split("/")[1] ?? "": what stands between the first "/" and the next
SecondSegment(s) ==
    LET rest == SubSeq(s, SlashAt(s) + 1, Len(s))
    IN  SubSeq(rest, 1, SlashAt(rest) - 1)

extFromMime(mime) ==
    IF StartsWith(mime, "image/")
    THEN IF SecondSegment(mime) # "" THEN "." \o SecondSegment(mime) ELSE ".jpg"
    ELSE IF StartsWith(mime, "video/")
    THEN IF SecondSegment(mime) # "" THEN "." \o SecondSegment(mime) ELSE ".mp4"
    ELSE ""

mediaTypeFromMime(mime) == IF StartsWith(mime, "video/") THEN "video" ELSE "image"

AnyMimeAccepted(mime) == mime # ""

\* the mime check of both routes: an image or a video family
MimeAccepted(mime) == mime # "" /\ (StartsWith(mime, "image/") \/ StartsWith(mime, "video/"))

\* two decimal digits
TwoDigits(n) ==
    SubSeq("0123456789", (n \div 10) + 1, (n \div 10) + 1) \o SubSeq("0123456789", (n % 10) + 1, (n % 10) + 1)

\* new Date(s): the instant a stored timestamp names, in minutes of 2024-05-01 UTC
\* (hours and minutes, less the zone offset)
DateParse(s) ==
    LET hh == SubSeq(s, 12, 13)
        mm == SubSeq(s, 15, 16)
        zone == SubSeq(s, 20, 25)
        num(d) == CHOOSE n \in 0..59 : TwoDigits(n) = d
        offset == IF SubSeq(zone, 1, 1) = "+"
                  THEN num(SubSeq(zone, 2, 3)) * 60 + num(SubSeq(zone, 5, 6))
                  ELSE 0 - (num(SubSeq(zone, 2, 3)) * 60 + num(SubSeq(zone, 5, 6)))
    IN  num(hh) * 60 + num(mm) - offset

\* Date.prototype.toISOString
toISOString(minutes) ==
    "2024-05-01T" \o TwoDigits(minutes \div 60) \o ":" \o TwoDigits(minutes % 60) \o ":00.000Z"

\* the path reserve derives: {player_id}/{block_start as ISO}/{challenge id}{ext}
ReservedPath(playerId, pcId, pc, mime) ==
    playerId \o "/" \o toISOString(DateParse(pc.block_start)) \o "/" \o pcId \o extFromMime(mime)

StorageBase == "https://storage.example/object/public/"

\* storage.from(BUCKET).getPublicUrl(path)
getPublicUrl(path) == StorageBase \o BUCKET \o "/" \o path

AnyPathAllowed(path, playerId) == TRUE

PrefixWithoutSlash(path, playerId) == StartsWith(path, playerId)

PathUnderBucket(path, playerId) == StartsWith(path, BUCKET \o "/" \o playerId \o "/")

PathOfAnyPlayer(path, playerId) == \E q \in PlayerIds : StartsWith(path, q \o "/")

\* the path check of commit: inside the caller's own subtree
PathAllowed(path, playerId) == StartsWith(path, playerId \o "/")

AnyChallengeAllowed(pc, playerId) == pc # None

\* the self-only check of both routes: the row exists and is the caller's
OwnsChallenge(pc, playerId) == pc # None /\ pc[1].player_id = playerId

\* a request of an upload route with its response: upload is the credential's path
\* (reserve), media the recorded url, mime and type (commit)
UploadReply(op, req, failed, status, error, upload, media) ==
    [op |-> op, token |-> req.token, id |-> req.id, path |-> req.path, mime |-> req.mime,
     fail |-> failed, status |-> status, error |-> error, upload |-> upload, media |-> media]

UploadDeny(status, error) == [status |-> status, error |-> error, failed |-> "none"]

UploadInternal(call) == [status |-> 500, error |-> StoreError, failed |-> call]

\* the checks both routes share, in their order: token, id, (path,) mime, session,
\* challenge row and its owner; status 0 lets the request go on
UploadGuard(req, needsPath) ==
    LET sessionToken == readSessionTokenFromRequest(req.token)
        session == MaybeSingle(sessions, sessionToken)
        pc == MaybeSingle(challenges, req.id)
    IN  IF sessionToken = "" THEN UploadDeny(401, "UNAUTHORIZED")
        ELSE IF ~validateUuid(req.id) THEN UploadDeny(400, "INVALID_PLAYER_CHALLENGE_ID")
        ELSE IF needsPath /\ req.path = "" THEN UploadDeny(400, "INVALID_PATH")
        ELSE IF ~MimeAccepted(req.mime) THEN UploadDeny(400, "INVALID_MIME")
        ELSE IF req.fail = "session" THEN UploadInternal("session")
        ELSE IF session = None THEN UploadDeny(401, "UNAUTHORIZED")
        ELSE IF req.fail = "challenge" THEN UploadInternal("challenge")
        ELSE IF ~OwnsChallenge(pc, session[1]) THEN UploadDeny(403, "NOT_ALLOWED")
        ELSE UploadDeny(0, "")

\* reserve: the guard, then createSignedUploadUrl for the derived path; data.path of
\* the storage's answer is the path it was asked for
Reserve(req) ==
    LET g == UploadGuard(req, FALSE)
        path == ReservedPath(sessions[req.token], req.id, challenges[req.id], req.mime)
    IN  /\ IF g.status # 0
           THEN /\ last' = UploadReply("reserve", req, g.failed, g.status, g.error, None, None)
                /\ issued' = issued
           ELSE IF req.fail = "storage"
           THEN /\ last' = UploadReply("reserve", req, "storage", 500, StoreError, None, None)
                /\ issued' = issued
           ELSE /\ issued' = issued \cup {path}
                /\ last' = UploadReply("reserve", req, "none", 200, "", Some(path), None)
        /\ UNCHANGED <<roomVars, now, pending, startOks, pageVars>>

CommittedRowKeepingType(row, path, mime, at) ==
    [row EXCEPT !.media_url = Some(getPublicUrl(path)),
                !.media_type = IF row.media_type = None THEN Some(mediaTypeFromMime(mime))
                               ELSE row.media_type,
                !.media_mime = Some(mime),
                !.media_uploaded_at = Some(at)]

\* the row commit writes
CommittedRow(row, path, mime, at) ==
    [row EXCEPT !.media_url = Some(getPublicUrl(path)),
                !.media_type = Some(mediaTypeFromMime(mime)),
                !.media_mime = Some(mime),
                !.media_uploaded_at = Some(at)]

\* commit: the guard, the path check, then the update of the media fields, with no
\* other request served between its reads and its update
Commit(req) ==
    LET g == UploadGuard(req, TRUE)
    IN  /\ IF g.status # 0
           THEN /\ last' = UploadReply("commit", req, g.failed, g.status, g.error, None, None)
                /\ challenges' = challenges
           ELSE IF ~PathAllowed(req.path, sessions[req.token])
           THEN /\ last' = UploadReply("commit", req, "none", 403, "NOT_ALLOWED", None, None)
                /\ challenges' = challenges
           ELSE IF req.fail = "update"
           THEN /\ last' = UploadReply("commit", req, "update", 500, StoreError, None, None)
                /\ challenges' = challenges
           ELSE /\ challenges' = [challenges EXCEPT
                                    ![req.id] = CommittedRow(challenges[req.id], req.path, req.mime, now)]
                /\ last' = UploadReply("commit", req, "none", 200, "", None,
                                       Some([url |-> getPublicUrl(req.path), mime |-> req.mime,
                                             type |-> mediaTypeFromMime(req.mime)]))
        /\ UNCHANGED <<rooms, players, sessions, members, issued, now, pending, startOks, pageVars>>

----------------------------------------------------------------------------
(* The upload requests of the model *)

UploadRequest(token, id, path, mime, fail) ==
    [token |-> token, id |-> id, path |-> path, mime |-> mime, fail |-> fail]

Mimes == {"", "application/pdf", "image/png", "video/mp4"}

\* the paths reserve hands out for c1 (of p1) and c2 (of p2)
C1Png == "p1/2024-05-01T10:00:00.000Z/c1.png"

C1Mp4 == "p1/2024-05-01T10:00:00.000Z/c1.mp4"

C2Png == "p2/2024-05-01T10:30:00.000Z/c2.png"

\* reserve: requests without a session, well-formed or with one field malformed; p1 on
\* its own c1 with every mime and on other ids; p2 on both challenges; and a failure of
\* each call on p1's own request
ReserveRequests ==
    {UploadRequest(t, f[1], "", f[2], "none") :
        t \in {"", "tokX"}, f \in {<<"c1", "image/png">>, <<"", "image/png">>, <<"c1", "">>}}
      \cup {UploadRequest("tok1", "c1", "", m, "none") : m \in Mimes \cup {"video/"}}
      \cup {UploadRequest("tok1", i, "", "image/png", "none") : i \in {"", "c2", "c9"}}
      \cup {UploadRequest("tok2", f[1], "", f[2], "none") :
              f \in {<<"c1", "image/png">>, <<"c2", "image/png">>, <<"c2", "application/pdf">>}}
      \cup {UploadRequest("tok1", "c1", "", "image/png", f) : f \in {"session", "challenge", "storage"}}

\* commit: requests without a session, well-formed or with one field malformed; p1 on
\* its own c1 with a reserved path and with a path of its own making under every mime,
\* and with no path, a path of p2's subtree and a path that only begins like its id;
\* p1 on other ids; p2 on c1 and on its own c2; and a failure of each call on p1's own
\* request
CommitRequests ==
    {UploadRequest(t, f[1], f[2], f[3], "none") :
        t \in {"", "tokX"},
        f \in {<<"c1", C1Png, "image/png">>, <<"", C1Png, "image/png">>,
               <<"c1", "", "image/png">>, <<"c1", C1Png, "">>}}
      \cup {UploadRequest("tok1", "c1", q, m, "none") : q \in {C1Png, "p1/mine.png"}, m \in Mimes}
      \cup {UploadRequest("tok1", "c1", q, "image/png", "none") : q \in {"", C2Png, "p1x/c1.png"}}
      \cup {UploadRequest("tok1", i, C1Png, "image/png", "none") : i \in {"", "c2", "c9"}}
      \cup {UploadRequest("tok1", "c2", C2Png, "image/png", "none")}
      \cup {UploadRequest("tok2", f[1], f[2], "image/png", "none") :
              f \in {<<"c1", C1Png>>, <<"c1", C2Png>>, <<"c2", C2Png>>, <<"c2", C1Png>>}}
      \cup {UploadRequest("tok1", "c1", C1Png, "image/png", f) : f \in {"session", "challenge", "update"}}

NextUpload ==
    \/ \E req \in ReserveRequests : Reserve(req)
    \/ \E req \in CommitRequests : Commit(req)
    \/ Close
    \/ Tick

SpecUpload == Init /\ [][NextUpload]_vars

----------------------------------------------------------------------------
(* Properties of the upload protocol *)

UploadOps == {"reserve", "commit"}

\* the request is one on which the route resolves the caller: a token of a session and
\* a body that passed the route's validation, the store answering every call
CallerResolved ==
    /\ last.op \in UploadOps
    /\ last.token \in DOMAIN sessions
    /\ last.id # ""
    /\ (last.op = "commit" => last.path # "")
    /\ (StartsWith(last.mime, "image/") \/ StartsWith(last.mime, "video/"))
    /\ last.fail = "none"

\* the challenge row of the request is the caller's
CallerOwnsRecord ==
    /\ last.token \in DOMAIN sessions
    /\ last.id \in DOMAIN challenges
    /\ challenges[last.id].player_id = sessions[last.token]

InCallerSubtree ==
    /\ last.token \in DOMAIN sessions
    /\ StartsWith(last.path, sessions[last.token] \o "/")

Refused(status, error) ==
    /\ last.status = status
    /\ last.error = error
    /\ last.upload = None
    /\ last.media = None

\* C3: a commit-upload whose path does not start with "{player_id}/" of the resolved
\* caller is answered 403 NOT_ALLOWED, also when the caller owns the challenge row, and
\* no commit with such a path changes a challenge row.
C3_ForeignPathDenied ==
    /\ []((CallerResolved /\ last.op = "commit" /\ ~InCallerSubtree) => Refused(403, "NOT_ALLOWED"))
    /\ [][(Answered("commit") /\ ~InCallerSubtree') => challenges' = challenges]_vars

\* p1 has media on its own c1 and then commits on c1 a path that only begins like its
\* id: denied, the media still there
C3_Witness ==
    /\ last.op = "commit"
    /\ last.token = "tok1"
    /\ last.id = "c1"
    /\ last.path = "p1x/c1.png"
    /\ last.status = 403
    /\ CallerOwnsRecord
    /\ challenges["c1"].media_url = Some(getPublicUrl(C1Png))

\* C4: reserve-upload and commit-upload succeed only for the player the challenge row
\* belongs to; a resolved caller who is not that player (or names no row) is answered
\* 403 NOT_ALLOWED by either route without a credential and without a write, whatever
\* credentials were issued before.
C4_SelfOnly ==
    /\ []((last.op \in UploadOps /\ last.status = 200) => CallerOwnsRecord)
    /\ []((CallerResolved /\ ~CallerOwnsRecord) => Refused(403, "NOT_ALLOWED"))
    /\ [][((Answered("reserve") \/ Answered("commit")) /\ ~CallerOwnsRecord')
            => (challenges' = challenges /\ issued' = issued)]_vars

\* p1 reserved a path for its c1, and p2 commits that very path on c1: denied
C4_Witness ==
    /\ C1Png \in issued
    /\ last.op = "commit"
    /\ last.token = "tok2"
    /\ last.id = "c1"
    /\ last.path = C1Png
    /\ last.status = 403
    /\ challenges["c1"].media_url = None

GoodMime(mime) == StartsWith(mime, "image/") \/ StartsWith(mime, "video/")

\* C5: a successful commit records the request's mime, with media_type video exactly
\* when it starts with "video/" and image exactly when it starts with "image/"; a
\* request of either route with a mime of another family or none is never answered with
\* success, and is answered 400 INVALID_MIME when its token is present and its id (and,
\* for commit, its path) well-formed; it gets no credential and writes nothing.
C5_MimeFamilies ==
    /\ []((last.op = "commit" /\ last.status = 200) =>
            /\ challenges[last.id].media_mime = Some(last.mime)
            /\ (challenges[last.id].media_type = Some("video")) = StartsWith(last.mime, "video/")
            /\ (challenges[last.id].media_type = Some("image")) = StartsWith(last.mime, "image/")
            /\ last.media[1].type = challenges[last.id].media_type[1])
    /\ []((last.op \in UploadOps /\ ~GoodMime(last.mime)) =>
            /\ last.status \in {400, 401}
            /\ last.upload = None
            /\ last.media = None
            /\ ((last.token # "" /\ last.id # "" /\ (last.op = "commit" => last.path # ""))
                  => Refused(400, "INVALID_MIME")))
    /\ [][((Answered("reserve") \/ Answered("commit")) /\ ~GoodMime(last'.mime))
            => (challenges' = challenges /\ issued' = issued)]_vars

\* a video committed after an image on the same row
C5_Witness ==
    /\ last.op = "commit"
    /\ last.status = 200
    /\ last.mime = "video/mp4"
    /\ challenges["c1"].media_type = Some("video")
    /\ now > 0

\* the path behind a public url
PathOfUrl(url) == SubSeq(url, Len(StorageBase \o BUCKET \o "/") + 1, Len(url))

\* the paths reserve can hand out for a challenge row
DerivedPaths(id) ==
    {challenges[id].player_id \o "/" \o toISOString(DateParse(challenges[id].block_start)) \o "/"
       \o id \o ext : ext \in {".png", ".mp4", ".jpg"}}

\* C10 as stated: after a successful commit the path behind the row's media_url is the
\* server-derived path of that row, as a reserve returns it.
C10_RecordedPathIsDerived ==
    (last.op = "commit" /\ last.status = 200)
        => PathOfUrl(challenges[last.id].media_url[1]) \in DerivedPaths(last.id)

\* C10 as amended: after a successful commit the path behind the row's media_url is the
\* path the client sent in that commit, which lies under "{player_id}/" of the row's
\* owner.
C10_RecordedPathIsClientsInOwnSubtree ==
    (last.op = "commit" /\ last.status = 200) =>
        /\ PathOfUrl(challenges[last.id].media_url[1]) = last.path
        /\ last.media[1].url = challenges[last.id].media_url[1]
        /\ StartsWith(last.path, challenges[last.id].player_id \o "/")

\* p1 commits a path of its own making, never handed out by reserve, and it is recorded
C10_Witness ==
    /\ last.op = "commit"
    /\ last.status = 200
    /\ last.path = "p1/mine.png"
    /\ last.path \notin issued
    /\ C1Png \in issued
    /\ PathOfUrl(challenges["c1"].media_url[1]) = "p1/mine.png"

\* an id that is well-formed and names no challenge row in any state
MissingId == "c9"

\* what the route of the request answered last answers the same request when its id
\* names no row
AnswerForMissingId ==
    UploadGuard(UploadRequest(last.token, MissingId, last.path, last.mime, last.fail),
                last.op = "commit")

\* C22: reserve-upload and commit-upload answer an authenticated caller who names
\* another player's challenge row exactly as they answer the same request for an id of
\* no row: 403 NOT_ALLOWED once the body is valid and the store answers, with no
\* credential and no media in the answer.
C22_ForeignLooksMissing ==
    (/\ last.op \in UploadOps
     /\ last.token \in DOMAIN sessions
     /\ last.id \in DOMAIN challenges
     /\ challenges[last.id].player_id # sessions[last.token])
        => (/\ last.status = AnswerForMissingId.status
            /\ last.error = AnswerForMissingId.error
            /\ last.upload = None
            /\ last.media = None
            /\ (CallerResolved => (last.status = 403 /\ last.error = "NOT_ALLOWED")))

\* p2 has reserved and committed media for its c2; p1 asks for a credential for c2
\* and is refused
C22_Witness ==
    /\ last.op = "reserve"
    /\ last.token = "tok1"
    /\ last.id = "c2"
    /\ last.status = 403
    /\ "c2" \in DOMAIN challenges
    /\ C2Png \in issued
    /\ challenges["c2"].media_url = Some(getPublicUrl(C2Png))

----------------------------------------------------------------------------
(* Commit between its reads and its update: requests of several players and of one
   player interleave at the store, which applies each update to its row as a whole *)

\* a commit request with its response; prior is the media_uploaded_at its update found
\* on the row
CommitReply(req, failed, status, error, media, prior) ==
    [op |-> "commit", token |-> req.token, id |-> req.id, path |-> req.path, mime |-> req.mime,
     fail |-> failed, status |-> status, error |-> error, upload |-> None, media |-> media,
     prior |-> prior]

\* the route up to the store update: the guard, the path check, then publicUrl,
\* mediaType and the upload time are taken and the update is sent for pc.id
CommitBegin(req) ==
    LET g == UploadGuard(req, TRUE)
    IN  IF g.status # 0
        THEN /\ last' = CommitReply(req, g.failed, g.status, g.error, None, None)
             /\ UNCHANGED <<roomVars, issued, now, pending, startOks, pageVars>>
        ELSE IF ~PathAllowed(req.path, sessions[req.token])
        THEN /\ last' = CommitReply(req, "none", 403, "NOT_ALLOWED", None, None)
             /\ UNCHANGED <<roomVars, issued, now, pending, startOks, pageVars>>
        ELSE /\ BagCardinality(pending) < MaxInflight
             /\ pending' = pending (+) SetToBag({[op |-> "commit", req |-> req, row |-> req.id,
                                                   at |-> now]})
             /\ UNCHANGED <<roomVars, issued, now, last, startOks, pageVars>>

\* challenges after .update(...).eq("id", id): the row with that id, none if it is gone
CommitUpdate(id, path, mime, at) ==
    IF id \in DOMAIN challenges
    THEN [challenges EXCEPT ![id] = CommittedRow(challenges[id], path, mime, at)]
    ELSE challenges

\* the store applies the update (or fails) and the route answers
CommitFinish(p, ok) ==
    /\ p \in BagToSet(pending)
    /\ p.op = "commit"
    /\ pending' = pending (-) SetToBag({p})
    /\ IF ok
       THEN /\ challenges' = CommitUpdate(p.row, p.req.path, p.req.mime, p.at)
            /\ last' = CommitReply(p.req, "none", 200, "",
                                   Some([url |-> getPublicUrl(p.req.path), mime |-> p.req.mime,
                                         type |-> mediaTypeFromMime(p.req.mime)]),
                                   IF p.row \in DOMAIN challenges
                                   THEN challenges[p.row].media_uploaded_at ELSE None)
       ELSE /\ challenges' = challenges
            /\ last' = CommitReply(p.req, "update", 500, StoreError, None, None)
    /\ UNCHANGED <<rooms, players, sessions, members, issued, now, startOks, pageVars>>

\* reserve: p1 on its own challenge and p2 on p1's
MediaReserveRequests ==
    {UploadRequest(t, "c1", "", "image/png", "none") : t \in {"tok1", "tok2"}}

\* commit: each player on its own challenge (p1 with an image and with a video), p2 on
\* p1's challenge, p1 with a path of p2's subtree and with one that only begins like
\* its id, a mime of no media family, and a token of no session
MediaCommitRequests ==
    {UploadRequest(f[1], f[2], f[3], f[4], "none") :
        f \in {<<"tok1", "c1", C1Png, "image/png">>, <<"tok1", "c1", "p1/mine.mp4", "video/mp4">>,
               <<"tok2", "c2", C2Png, "image/png">>, <<"tok2", "c1", C2Png, "image/png">>,
               <<"tok1", "c1", C2Png, "image/png">>, <<"tok1", "c1", "p1x/c1.png", "image/png">>,
               <<"tok1", "c1", C1Png, "application/pdf">>, <<"tokX", "c1", C1Png, "image/png">>}}

\* end: the owner of r1
MediaEndRequests == {[token |-> "tok1", body |-> [code |-> "ABCD", role |-> ""], fail |-> "none"]}

NextMedia ==
    \/ \E req \in MediaReserveRequests : Reserve(req)
    \/ \E req \in MediaCommitRequests : CommitBegin(req)
    \/ \E p \in BagToSet(pending), ok \in BOOLEAN : CommitFinish(p, ok)
    \/ \E req \in MediaEndRequests : EndBegin(req.token, req.body, req.fail)
    \/ \E p \in BagToSet(pending), ok \in BOOLEAN : EndFinish(p, ok)
    \/ Close

SpecMedia == Init /\ [][NextMedia]_vars

----------------------------------------------------------------------------
(* Properties of the media fields *)

\* the step answers a commit with success, for row c, to the player of that row
OwnersCommitAnswered(c) ==
    /\ BagCardinality(pending') < BagCardinality(pending)
    /\ last'.op = "commit"
    /\ last'.status = 200
    /\ last'.id = c
    /\ last'.token \in DOMAIN sessions
    /\ sessions[last'.token] = challenges[c].player_id

\* C11: a step that changes a challenge row is the answer 200 to a commit-upload on
\* that row by the row's player, and it changes media fields only; so no reserve-upload,
\* no end and no commit-upload answered 400, 401 or 403 changes any challenge field.
C11_OnlyOwnersCommitWrites ==
    [][\A c \in (DOMAIN challenges) \cap (DOMAIN challenges') :
          challenges'[c] # challenges[c] =>
              /\ OwnersCommitAnswered(c)
              /\ challenges'[c].player_id = challenges[c].player_id
              /\ challenges'[c].block_start = challenges[c].block_start]_vars

\* p1's c1 holds the media p1 committed, after p1 got the credential for it, r1 was
\* ended by its owner, and p2's commit on c1 was refused
C11_Witness ==
    /\ C1Png \in issued
    /\ "r1" \in DOMAIN rooms
    /\ rooms["r1"].status = "ended"
    /\ challenges["c1"].media_url = Some(getPublicUrl(C1Png))
    /\ last.op = "commit"
    /\ last.token = "tok2"
    /\ last.id = "c1"
    /\ last.status = 403

\* C16: every challenge row with a media_url points to a storage path under
\* "{player_id}/" of the row's own player, whatever reserves and commits of the players
\* interleave.
C16_MediaInOwnersSubtree ==
    \A c \in DOMAIN challenges :
        challenges[c].media_url # None =>
            StartsWith(PathOfUrl(challenges[c].media_url[1]), challenges[c].player_id \o "/")

\* p2's commit on c2 has been answered while a commit of p1 is still in flight; both
\* rows hold media
C16_Witness ==
    /\ C1Png \in issued
    /\ {"c1", "c2"} \subseteq DOMAIN challenges
    /\ challenges["c1"].media_url = Some(getPublicUrl(C1Png))
    /\ challenges["c2"].media_url = Some(getPublicUrl(C2Png))
    /\ last.op = "commit"
    /\ last.token = "tok2"
    /\ last.id = "c2"
    /\ last.status = 200
    /\ \E p \in BagToSet(pending) : p.op = "commit" /\ p.req.token = "tok1"

----------------------------------------------------------------------------
(* Re-submission: commits of one player on one record, in flight together *)

\* p1 commits an image and a video on its c1
OverwriteRequests ==
    {UploadRequest("tok1", "c1", f[1], f[2], "none") :
        f \in {<<C1Png, "image/png">>, <<"p1/mine.mp4", "video/mp4">>}}

NextOverwrite ==
    \/ \E req \in OverwriteRequests : CommitBegin(req)
    \/ \E p \in BagToSet(pending), ok \in BOOLEAN : CommitFinish(p, ok)
    \/ Tick

SpecOverwrite == Init /\ [][NextOverwrite]_vars

\* the four media fields of a row are all null, or all set with media_type video exactly
\* when media_mime starts with "video/" and image otherwise
MediaWhole(row) ==
    \/ /\ row.media_url = None
       /\ row.media_type = None
       /\ row.media_mime = None
       /\ row.media_uploaded_at = None
    \/ /\ row.media_url # None
       /\ row.media_mime # None
       /\ row.media_uploaded_at # None
       /\ row.media_type = Some(IF StartsWith(row.media_mime[1], "video/") THEN "video" ELSE "image")

\* the four media fields of a row are those of the commit p in flight
MediaFrom(row, p) ==
    /\ row.media_url = Some(StorageBase \o BUCKET \o "/" \o p.req.path)
    /\ row.media_mime = Some(p.req.mime)
    /\ row.media_type = Some(IF StartsWith(p.req.mime, "video/") THEN "video" ELSE "image")
    /\ row.media_uploaded_at = Some(p.at)

\* C14: in every state the media fields of a record are all null or all set, with
\* media_type video exactly when media_mime starts with "video/"; and whenever the
\* store answers the update of a commit in flight, the record holds the url, type, mime
\* and upload time of that one commit, whatever an earlier commit wrote and in whatever
\* order the commits took their time; nothing else changes a record.
C14_LastCommitReplacesWhole ==
    /\ [](\A c \in DOMAIN challenges : MediaWhole(challenges[c]))
    /\ [][\A p \in BagToSet(pending) :
            (/\ p.op = "commit"
             /\ pending' = pending (-) SetToBag({p})
             /\ last'.status = 200)
              => MediaFrom(challenges'[p.row], p)]_vars
    /\ [][\A c \in DOMAIN challenges :
            challenges'[c] # challenges[c] =>
                \E p \in BagToSet(pending) :
                    /\ p.op = "commit"
                    /\ p.row = c
                    /\ pending' = pending (-) SetToBag({p})
                    /\ MediaFrom(challenges'[c], p)]_vars

\* the video commit took its time first and its update came last: the record holds the
\* video as a whole, with the earlier time, over the image committed in between
C14_Witness ==
    /\ now > 0
    /\ last.op = "commit"
    /\ last.status = 200
    /\ last.mime = "video/mp4"
    /\ last.prior = Some(now)
    /\ challenges["c1"].media_uploaded_at = Some(0)
    /\ challenges["c1"].media_mime = Some("video/mp4")
    /\ challenges["c1"].media_type = Some("video")
    /\ challenges["c1"].media_url = Some(getPublicUrl("p1/mine.mp4"))

----------------------------------------------------------------------------
(* The handshake: a player reserves for its own challenge and commits a path that a
   reserve has returned *)

\* image and video mimes, one of them without a subtype
HandshakeMimes == {"image/png", "video/mp4", "video/"}

\* each player with its own challenge
HandshakeCallers == {<<"tok1", "c1">>, <<"tok2", "c2">>}

NextHandshake ==
    \/ \E c \in HandshakeCallers, m \in HandshakeMimes :
          Reserve(UploadRequest(c[1], c[2], "", m, "none"))
    \/ \E c \in HandshakeCallers, q \in issued, m \in HandshakeMimes :
          Commit(UploadRequest(c[1], c[2], q, m, "none"))
    \/ Close

SpecHandshake == Init /\ [][NextHandshake]_vars

\* C20: a commit by the player of the row, the store answering, whose path is the one
\* reserve derives for that caller, row and mime, and which a reserve has handed out,
\* passes the prefix check and is answered success, the row recording that path and mime.
C20_HandshakeCompletes ==
    (/\ last.op = "commit"
     /\ last.fail = "none"
     /\ last.token \in DOMAIN sessions
     /\ last.id \in DOMAIN challenges
     /\ challenges[last.id].player_id = sessions[last.token]
     /\ last.path \in issued
     /\ last.path = ReservedPath(sessions[last.token], last.id, challenges[last.id], last.mime))
        => (/\ StartsWith(last.path, sessions[last.token] \o "/")
            /\ last.status = 200
            /\ last.media = Some([url |-> StorageBase \o BUCKET \o "/" \o last.path,
                                  mime |-> last.mime,
                                  type |-> IF StartsWith(last.mime, "video/") THEN "video" ELSE "image"])
            /\ challenges[last.id].media_url = Some(StorageBase \o BUCKET \o "/" \o last.path)
            /\ challenges[last.id].media_mime = Some(last.mime))

\* p2, whose block_start is written with a zone offset, reserved with a video mime
\* that has no subtype and committed the path it got
C20_Witness ==
    /\ last.op = "commit"
    /\ last.token = "tok2"
    /\ last.id = "c2"
    /\ last.mime = "video/"
    /\ last.path = "p2/2024-05-01T10:30:00.000Z/c2.mp4"
    /\ last.path \in issued
    /\ last.status = 200
    /\ "c2" \in DOMAIN challenges
    /\ challenges["c2"].media_type = Some("video")

----------------------------------------------------------------------------
(* The setup page: what fetchJson returns *)

\* { ok: true, data }: data is null when the body is not JSON
FetchOk(data) == [ok |-> TRUE, status |-> 200, error |-> "", data |-> data]

\* { ok: false, status, error }: status 0 with NETWORK_ERROR when fetch threw
FetchFailed(status, message) == [ok |-> FALSE, status |-> status, error |-> message, data |-> None]

----------------------------------------------------------------------------
(* The setup page: roster polling. Each run of the effect has its own flag cancelled
   and its own interval; a roster request is the run that issued it and its number in
   the order of issue. *)

Rosters == {<<"p1">>, <<"p1", "p2">>}

\* answers to a roster request: a roster, a body without players, a body that is not
\* JSON, an error of the route, a network error
PollResults ==
    {FetchOk(Some([players |-> Some(r)])) : r \in Rosters}
      \cup {FetchOk(Some([players |-> None])), FetchOk(None),
            FetchFailed(404, "ROOM_NOT_FOUND"), FetchFailed(0, "NETWORK_ERROR")}

\* a roster request handled by the page, with its answer
PollReply(p, res) == [op |-> "poll", life |-> p.life, seq |-> p.seq, res |-> res]

\* refreshPlayers up to its await: the request is sent
NewPoll(l) == [life |-> l, seq |-> pollCount + 1]

\* the effect runs: cancelled = false, refreshPlayers(), setInterval; the cleanup of the
\* run before it has run
MountPolling ==
    /\ life < MaxMounts
    /\ pollCount < MaxPolls
    /\ \A l \in DOMAIN cancelled : cancelled[l]
    /\ life' = life + 1
    /\ cancelled' = Append(cancelled, FALSE)
    /\ timers' = timers \cup {life + 1}
    /\ polls' = polls \cup {NewPoll(life + 1)}
    /\ pollCount' = pollCount + 1
    /\ UNCHANGED <<roomVars, issued, now, pending, last, startOks, isOwner, mePending, roomName,
                   starting, pageError, navigated, sg, sent, got, pagePlayers>>

\* the interval of run l fires: refreshPlayers()
PollTick(l) ==
    /\ l \in timers
    /\ pollCount < MaxPolls
    /\ polls' = polls \cup {NewPoll(l)}
    /\ pollCount' = pollCount + 1
    /\ UNCHANGED <<roomVars, issued, now, pending, last, startOks, isOwner, mePending, roomName,
                   starting, pageError, navigated, sg, sent, got, pagePlayers, life, cancelled,
                   timers>>

NeverIgnored(l) == FALSE

\* if (cancelled) return, in the closure of run l
Ignored(l) == cancelled[l]

keepPlayersIfSet(current, value) == IF current # <<>> THEN current ELSE value

\* setPlayers(value)
setPlayers(current, value) == value

\* refreshPlayers after its await, for request p answered res; reading players of a
\* null body throws, and the rejection is swallowed by .catch(() => {})
PollResponse(p, res) ==
    /\ p \in polls
    /\ polls' = polls \ {p}
    /\ last' = PollReply(p, res)
    /\ IF Ignored(p.life) THEN UNCHANGED <<pagePlayers, pageError>>
       ELSE IF ~res.ok THEN pageError' = Some(res.error) /\ pagePlayers' = pagePlayers
       ELSE IF res.data = None THEN UNCHANGED <<pagePlayers, pageError>>
       ELSE /\ pagePlayers' = setPlayers(pagePlayers,
                                         IF res.data[1].players = None THEN <<>>
                                         ELSE res.data[1].players[1])
            /\ pageError' = pageError
    /\ UNCHANGED <<roomVars, issued, now, pending, startOks, isOwner, mePending, roomName,
                   starting, navigated, sg, sent, got, life, cancelled, timers, pollCount>>

\* the cleanup of run l: cancelled = true, clearInterval(id)
CleanupPolling(l) ==
    /\ l \in DOMAIN cancelled
    /\ ~cancelled[l]
    /\ cancelled' = [cancelled EXCEPT ![l] = TRUE]
    /\ timers' = timers \ {l}
    /\ UNCHANGED <<roomVars, issued, now, pending, last, startOks, isOwner, mePending, roomName,
                   starting, pageError, navigated, sg, sent, got, pagePlayers, life, polls,
                   pollCount>>

NextPoll ==
    \/ MountPolling
    \/ \E l \in timers : PollTick(l)
    \/ \E p \in polls, res \in PollResults : PollResponse(p, res)
    \/ \E l \in DOMAIN cancelled : CleanupPolling(l)

SpecPoll == Init /\ [][NextPoll]_vars

\* an armed interval keeps firing
SpecPollFair == SpecPoll /\ WF_vars(\E l \in timers : PollTick(l))

----------------------------------------------------------------------------
(* Properties of the roster polling *)

\* C15: a request is issued only by a run that is not cancelled, and the answer to a
\* request of a cancelled run changes neither the players list nor the error.
C15_CancelledLoopIsSilent ==
    /\ [][\A p \in polls' \ polls :
            /\ ~cancelled'[p.life]
            /\ (p.life \in DOMAIN cancelled => ~cancelled[p.life])]_vars
    /\ [](\A l \in timers : ~cancelled[l])
    /\ [][\A p \in polls \ polls' :
            cancelled[p.life] => (pagePlayers' = pagePlayers /\ pageError' = pageError)]_vars

\* a request of the first run was in flight when the run was cancelled; a second run
\* has started since, and the late answer, a roster, was handled and is not the list
C15_Witness ==
    /\ last.op = "poll"
    /\ last.life = 1
    /\ life = 2
    /\ cancelled[1]
    /\ ~cancelled[2]
    /\ last.res.ok
    /\ last.res.data = Some([players |-> Some(<<"p1", "p2">>)])
    /\ pagePlayers = <<"p1">>

\* the step handles the answer to a roster request of a run that is not cancelled
LivePollHandled ==
    /\ \E p \in polls \ polls' : ~cancelled[p.life]
    /\ last'.op = "poll"

\* C19: handling a failed roster request of a run that is not cancelled leaves the
\* players list as it was and the run's interval armed; a run that is not cancelled has
\* its interval armed, and after a failure it issues a further request on a following
\* tick unless it is cancelled first; handling an answer that carries a body sets the
\* players list to the answer's players ([] when it has none).
C19_FailedPollIsNotFatal ==
    /\ [][(LivePollHandled /\ ~last'.res.ok) =>
            /\ pagePlayers' = pagePlayers
            /\ timers' = timers
            /\ cancelled' = cancelled]_vars
    /\ [](\A l \in DOMAIN cancelled : ~cancelled[l] => l \in timers)
    /\ \A l \in 1..MaxMounts, k \in 0..(MaxPolls - 1) :
          (/\ last.op = "poll"
           /\ last.life = l
           /\ ~last.res.ok
           /\ ~cancelled[l]
           /\ pollCount = k)
            ~> (\/ \E p \in polls : p.life = l /\ p.seq > k
                \/ (l \in DOMAIN cancelled /\ cancelled[l]))
    /\ [][(LivePollHandled /\ last'.res.ok /\ last'.res.data # None) =>
            pagePlayers' = (IF last'.res.data[1].players = None THEN <<>>
                            ELSE last'.res.data[1].players[1])]_vars

\* one run, three requests, all answered: one answer was a network error, and the
\* third request's roster replaced the list an earlier answer had set
C19_Witness ==
    /\ life = 1
    /\ ~cancelled[1]
    /\ polls = {}
    /\ pageError = Some("NETWORK_ERROR")
    /\ last.op = "poll"
    /\ last.seq = 3
    /\ last.res.ok
    /\ pagePlayers = <<"p1", "p2">>

\* the players an answer with a body carries
PlayersOf(res) == IF res.data[1].players = None THEN <<>> ELSE res.data[1].players[1]

\* the answer handled last was a roster of run l, request number n, and set the list
ListSetBy(l, n) ==
    /\ last.op = "poll"
    /\ last.life = l
    /\ last.seq = n
    /\ ~cancelled[l]
    /\ last.res.ok
    /\ last.res.data # None
    /\ pagePlayers = PlayersOf(last.res)

\* C21: within one run of the polling effect, once the answer to a request has set
\* the players list, handling the answer to a request issued before it leaves the list
\* as it is.
C21_AnswersAppliedInRequestOrder ==
    [][\A p \in polls \ polls' :
          (\E n \in 1..pollCount : n > p.seq /\ ListSetBy(p.life, n))
            => pagePlayers' = pagePlayers]_vars

----------------------------------------------------------------------------
(* The setup page: isOwner, the room name, and startGame *)

RECURSIVE TrimStart(_)
\* String.prototype.trimStart, for blanks
TrimStart(s) == IF Len(s) > 0 /\ SubSeq(s, 1, 1) = " " THEN TrimStart(SubSeq(s, 2, Len(s))) ELSE s

RECURSIVE TrimEnd(_)
\* String.prototype.trimEnd, for blanks
TrimEnd(s) ==
    IF Len(s) > 0 /\ SubSeq(s, Len(s), Len(s)) = " " THEN TrimEnd(SubSeq(s, 1, Len(s) - 1)) ELSE s

\* String.prototype.trim
trim(s) == TrimEnd(TrimStart(s))

\* what the name field can hold: nothing, blanks, a name with blanks around it
PageNames == {"", "  ", " Fiesta "}

\* answers of /api/rooms/me
MeResults ==
    {FetchOk(Some([role |-> r])) : r \in {"owner", "member"}} \cup {FetchFailed(401, "UNAUTHORIZED")}

\* answers of the rename, rounds and start routes, as fetchJson returns them
StartResults ==
    {FetchOk(None), FetchFailed(409, "CONFLICT"), FetchFailed(403, "NOT_ALLOWED"),
     FetchFailed(400, "INVALID_ROUNDS"), FetchFailed(500, StoreError),
     FetchFailed(0, "NETWORK_ERROR")}

\* the effect that asks for the caller's role
MeResponse(res) ==
    /\ mePending
    /\ mePending' = FALSE
    /\ isOwner' = IF res.ok THEN res.data[1].role = "owner" ELSE isOwner
    /\ UNCHANGED <<roomVars, issued, now, pending, last, startOks, roomName, starting, pageError,
                   navigated, sg, sent, got, pagePlayers, life, cancelled, timers, polls,
                   pollCount>>

\* setRoomName: the drafts, the room's info, the input (disabled while starting)
SetRoomName(name) ==
    /\ ~starting
    /\ ~navigated
    /\ roomName' = name
    /\ UNCHANGED <<roomVars, issued, now, pending, last, startOks, isOwner, mePending, starting,
                   pageError, navigated, sg, sent, got, pagePlayers, life, cancelled, timers,
                   polls, pollCount>>

\* a request of startGame: the route and the name it carries (rename only)
StartRequest(op, name) == [op |-> op, name |-> name]

ToleratesAll(res) == TRUE

\* roundsRes.status !== 409, startRes.status !== 409
Tolerated(res) == res.status = 409

\* startGame up to its first await (the button is disabled while starting)
StartGame ==
    /\ sg = "idle"
    /\ ~starting
    /\ ~navigated
    /\ IF ~isOwner
       THEN UNCHANGED <<starting, pageError, sg, sent, got>>
       ELSE /\ starting' = TRUE
            /\ pageError' = None
            /\ got' = <<>>
            /\ IF trim(roomName) # ""
               THEN sg' = "rename" /\ sent' = <<StartRequest("rename", trim(roomName))>>
               ELSE sg' = "rounds" /\ sent' = <<StartRequest("rounds", "")>>
    /\ UNCHANGED <<roomVars, issued, now, pending, last, startOks, isOwner, mePending, roomName,
                   navigated, pagePlayers, life, cancelled, timers, polls, pollCount>>

\* startGame from the answer it waits on to its next await or its end (finally:
\* setStarting(false))
StartGameResponse(res) ==
    /\ sg # "idle"
    /\ got' = Append(got, [op |-> sg, res |-> res])
    /\ IF ~res.ok /\ (sg = "rename" \/ ~Tolerated(res))
       THEN /\ pageError' = Some(res.error)
            /\ sg' = "idle"
            /\ starting' = FALSE
            /\ UNCHANGED <<sent, navigated>>
       ELSE IF sg = "start"
       THEN /\ navigated' = TRUE
            /\ sg' = "idle"
            /\ starting' = FALSE
            /\ UNCHANGED <<sent, pageError>>
       ELSE /\ sg' = IF sg = "rename" THEN "rounds" ELSE "start"
            /\ sent' = Append(sent, StartRequest(sg', ""))
            /\ UNCHANGED <<starting, pageError, navigated>>
    /\ UNCHANGED <<roomVars, issued, now, pending, last, startOks, isOwner, mePending, roomName,
                   pagePlayers, life, cancelled, timers, polls, pollCount>>

NextStart ==
    \/ \E res \in MeResults : MeResponse(res)
    \/ \E name \in PageNames : SetRoomName(name)
    \/ StartGame
    \/ \E res \in StartResults : StartGameResponse(res)

SpecStart == Init /\ [][NextStart]_vars

----------------------------------------------------------------------------
(* Properties of startGame *)

Ops(log) == [i \in 1..Len(log) |-> log[i].op]

HasNonBlank(s) == \E i \in 1..Len(s) : SubSeq(s, i, i) # " "

OkOrConflict(res) == res.ok \/ res.status = 409

\* C18: startGame sends rename (exactly when the name has a non-blank character, with
\* the name trimmed), then rounds, then start, each after the answer to the one before;
\* a failed rename and a rounds or start answer that is neither success nor 409 end it
\* with that error shown and nothing more sent; it navigates exactly when the start
\* answer is success or 409, after a rounds answer that was success or 409 and, if
\* rename was sent, a successful rename; a page that is not the owner's sends nothing.
C18_StartGameSequence ==
    /\ [](Ops(sent) \in {<<>>, <<"rename">>, <<"rename", "rounds">>, <<"rename", "rounds", "start">>,
                         <<"rounds">>, <<"rounds", "start">>})
    /\ [](/\ Len(sent) = Len(got) + (IF sg = "idle" THEN 0 ELSE 1)
          /\ Ops(got) = SubSeq(Ops(sent), 1, Len(got))
          /\ (sg # "idle" => (sent[Len(sent)].op = sg /\ starting)))
    /\ [][(sg = "idle" /\ sg' # "idle") =>
            /\ (sent'[1].op = "rename") = HasNonBlank(roomName)
            /\ (sent'[1].op = "rename" =>
                  /\ HasNonBlank(SubSeq(sent'[1].name, 1, 1))
                  /\ HasNonBlank(SubSeq(sent'[1].name, Len(sent'[1].name), Len(sent'[1].name))))]_vars
    /\ [][(Len(got') = Len(got) + 1) =>
            LET a == got'[Len(got')]
            IN  IF ~a.res.ok /\ (a.op = "rename" \/ a.res.status # 409)
                THEN /\ pageError' = Some(a.res.error)
                     /\ sg' = "idle"
                     /\ sent' = sent
                     /\ ~starting'
                     /\ ~navigated'
                ELSE /\ pageError' = pageError
                     /\ navigated' = (a.op = "start")
                     /\ (a.op # "start" => Len(sent') = Len(sent) + 1)]_vars
    /\ [](navigated =>
            /\ \E i \in 1..Len(got) : got[i].op = "rounds" /\ OkOrConflict(got[i].res)
            /\ \E i \in 1..Len(got) : got[i].op = "start" /\ OkOrConflict(got[i].res)
            /\ \A i \in 1..Len(got) : got[i].op = "rename" => got[i].res.ok)
    /\ [](~isOwner => (sent = <<>> /\ sg = "idle" /\ ~starting /\ ~navigated))

\* the owner's page renamed the room, got 409 from rounds and from start, and navigated
C18_Witness ==
    /\ navigated
    /\ isOwner
    /\ Ops(got) = <<"rename", "rounds", "start">>
    /\ sent[1].name = "Fiesta"
    /\ got[1].res.ok
    /\ got[2].res.status = 409
    /\ got[3].res.status = 409
    /\ pageError = None

====
